---- MODULE Spec2Model ----
(***************************************************************************)
(* The account page registry of reviewboard/accounts/pages.py.             *)
(*                                                                         *)
(* AccountPageRegistry keeps the account settings pages of the My Account  *)
(* screen.  pages.py declares the registry class (its lookup key, its      *)
(* defaults, its logging unregister), the five built-in pages and four     *)
(* deprecated free functions that forward to the registry.  The registry   *)
(* operations it inherits (register, unregister, get, default population,  *)
(* iteration) live in the djblets base classes, whose code is not part of  *)
(* pages.py; they are modelled here from the registry's specification.     *)
(***************************************************************************)
EXTENDS Integers, Sequences, FiniteSets, TLC

\* Successful registrations after default population that a behaviour may hold.
MaxRegisters == 2

(***************************************************************************)
(* Page classes.  A page class is named by its class name; page_id,        *)
(* page_title and form_classes are its class attributes.                   *)
(***************************************************************************)
BuiltinPages ==
    {"AccountSettingsPage", "APITokensPage", "AuthenticationPage",
     "ProfilePage", "GroupsPage"}

\* Pages contributed by extensions: a fresh page, a page that reuses the
\* built-in id 'settings', and a page whose second form is ProfilePage's.
ExtensionPages == {"ExtPageA", "ExtPageB", "ExtPageC"}

Pages == BuiltinPages \cup ExtensionPages

ExtPageId(P) ==
    CASE P = "ExtPageA" -> "ext-a"
      [] P = "ExtPageB" -> "settings"
      [] P = "ExtPageC" -> "ext-c"

ExtPageTitle(P) ==
    CASE P = "ExtPageA" -> "Extension A"
      [] P = "ExtPageB" -> "Extension B"
      [] P = "ExtPageC" -> "Extension C"

ExtFormClasses(P) ==
    CASE P = "ExtPageA" -> <<"ExtFormA">>
      [] P = "ExtPageB" -> <<"ExtFormB">>
      [] P = "ExtPageC" -> <<"ExtFormC", "ProfileForm">>

page_id(P) ==
    CASE P = "AccountSettingsPage" -> "settings"
      [] P = "APITokensPage" -> "api-tokens"
      [] P = "AuthenticationPage" -> "authentication"
      [] P = "ProfilePage" -> "profile"
      [] P = "GroupsPage" -> "groups"
      [] OTHER -> ExtPageId(P)

page_title(P) ==
    CASE P = "AccountSettingsPage" -> "Settings"
      [] P = "APITokensPage" -> "API Tokens"
      [] P = "AuthenticationPage" -> "Authentication"
      [] P = "ProfilePage" -> "Profile"
      [] P = "GroupsPage" -> "Groups"
      [] OTHER -> ExtPageTitle(P)

form_classes(P) ==
    CASE P = "AccountSettingsPage" -> <<"AccountSettingsForm">>
      [] P = "APITokensPage" -> <<"APITokensForm">>
      [] P = "AuthenticationPage" -> <<"ChangePasswordForm">>
      [] P = "ProfilePage" -> <<"ProfileForm", "AvatarSettingsForm">>
      [] P = "GroupsPage" -> <<"GroupsForm">>
      [] OTHER -> ExtFormClasses(P)

getattr(P, attr_name) ==
    CASE attr_name = "page_id" -> page_id(P)
      [] attr_name = "page_title" -> page_title(P)

\* Identifiers a caller may look up: every page's id and one no page has.
PageIds == {page_id(P) : P \in Pages} \cup {"no-such-page"}

(***************************************************************************)
(* AccountPageRegistry's own attributes.                                   *)
(***************************************************************************)
lookup_attrs_none == <<>>

lookup_attrs_title == <<"page_title">>

lookup_attrs == <<"page_id">>

get_defaults_missing ==
    <<"GroupsPage", "AccountSettingsPage", "AuthenticationPage", "ProfilePage">>

get_defaults_file_order ==
    <<"AccountSettingsPage", "APITokensPage", "AuthenticationPage",
      "ProfilePage", "GroupsPage">>

get_defaults ==
    <<"GroupsPage", "AccountSettingsPage", "AuthenticationPage",
      "ProfilePage", "APITokensPage">>

(***************************************************************************)
(* The registry's state and the outcome of one call on it.                 *)
(*   populated  whether default population has run                         *)
(*   registry   the keyed mapping, as triples <<attr name, value, page>>   *)
(*   key_order  the registered pages in iteration order                    *)
(*   forms      the form classes registered through their pages            *)
(***************************************************************************)
VARIABLES populated, registry, key_order, forms,
          lastCall, raised, got, yielded, logged, warned,
          firstUse, mutated, undo, nreg

vars == <<populated, registry, key_order, forms,
          lastCall, raised, got, yielded, logged, warned,
          firstUse, mutated, undo, nreg>>

St ==
    [populated |-> populated, registry |-> registry,
     key_order |-> key_order, forms |-> forms]

Range(s) == {s[i] : i \in DOMAIN s}

Remove(s, x) == SelectSeq(s, LAMBDA y : y # x)

\* A call's outcome: the state it leaves, the error it raises ("" for none),
\* the page a lookup returns ("None" for the sentinel), the pages an
\* iteration yields, and the numbers of logging.error and warn calls made.
Returns(st, page, pages) ==
    [st |-> st, raised |-> "", got |-> page, yielded |-> pages,
     logged |-> 0, warned |-> 0]

Raises(st, error) ==
    [st |-> st, raised |-> error, got |-> "None", yielded |-> <<>>,
     logged |-> 0, warned |-> 0]

(***************************************************************************)
(* The inherited registry operations.                                      *)
(***************************************************************************)
\* Whether one of the attributes the registry is keyed by already maps the
\* value page P gives it.
KeyTaken(st, P) ==
    \E i \in DOMAIN lookup_attrs :
        \E t \in st.registry :
            t[1] = lookup_attrs[i] /\ t[2] = getattr(P, lookup_attrs[i])

\* Whether one of P's forms is already registered.
FormTaken(st, P) == Range(form_classes(P)) \cap st.forms # {}

\* Registration proper: every collision is found before anything is stored;
\* a new page goes to the end of the iteration order.
RegisterItem(st, P) ==
    IF KeyTaken(st, P) \/ FormTaken(st, P)
    THEN Raises(st, "AlreadyRegisteredError")
    ELSE Returns(
             [st EXCEPT
                 !.registry = @ \cup {<<lookup_attrs[i],
                                        getattr(P, lookup_attrs[i]), P>> :
                                      i \in DOMAIN lookup_attrs},
                 !.key_order = Append(@, P),
                 !.forms = @ \cup Range(form_classes(P))],
             "None", <<>>)

RECURSIVE RegisterAll(_, _)
RegisterAll(st, items) ==
    IF items = <<>>
    THEN Returns(st, "None", <<>>)
    ELSE LET r == RegisterItem(st, Head(items))
         IN IF r.raised # "" THEN r ELSE RegisterAll(r.st, Tail(items))

Registry_populate_if_empty(st) ==
    IF st.key_order # <<>>
    THEN Returns(st, "None", <<>>)
    ELSE RegisterAll([st EXCEPT !.populated = TRUE], get_defaults)

\* Default population: on the first use only, the defaults are registered in
\* the order get_defaults gives them.
Registry_populate(st) ==
    IF st.populated
    THEN Returns(st, "None", <<>>)
    ELSE RegisterAll([st EXCEPT !.populated = TRUE], get_defaults)

Registry_register(st, P) ==
    LET p == Registry_populate(st)
    IN IF p.raised # "" THEN p ELSE RegisterItem(p.st, P)

\* A page that is not registered cannot be found; a registered page is
\* removed from the mapping and the order, and its forms are released.
Registry_unregister(st, P) ==
    LET p == Registry_populate(st)
    IN IF p.raised # "" THEN p
       ELSE IF P \notin Range(p.st.key_order)
       THEN Raises(p.st, "ItemLookupError")
       ELSE Returns(
                [p.st EXCEPT
                    !.registry = {t \in @ : t[3] # P},
                    !.key_order = Remove(@, P),
                    !.forms = @ \ Range(form_classes(P))],
                "None", <<>>)

\* The raising lookup of the base registry.
Registry_get(st, attr_name, attr_value) ==
    LET p == Registry_populate(st)
        hits == {t \in p.st.registry :
                    t[1] = attr_name /\ t[2] = attr_value}
    IN IF p.raised # "" THEN p
       ELSE IF hits = {}
       THEN Raises(p.st, "ItemLookupError")
       ELSE Returns(p.st, (CHOOSE t \in hits : TRUE)[3], <<>>)

\* The mixin's lookup: a lookup error becomes the sentinel None.
ExceptionFreeGetterMixin_get(r) ==
    IF r.raised = "ItemLookupError" THEN Returns(r.st, "None", <<>>) ELSE r

Registry_iter(st) ==
    LET p == Registry_populate(st)
    IN IF p.raised # "" THEN p
       ELSE Returns(p.st, "None", p.st.key_order)

(***************************************************************************)
(* AccountPageRegistry: the operations as the class of pages.py has them.  *)
(***************************************************************************)
AccountPageRegistry_register(st, page_class) == Registry_register(st, page_class)

AccountPageRegistry_unregister_nolog(st, page_class) ==
    Registry_unregister(st, page_class)

AccountPageRegistry_unregister_noop(st, page_class) ==
    LET p == Registry_populate(st)
    IN IF page_class \in Range(p.st.key_order)
       THEN p
       ELSE [Registry_unregister(st, page_class) EXCEPT !.logged = @ + 1]

\* try: super().unregister(page_class)
\* except ItemLookupError as e: logging.error(e); raise e
AccountPageRegistry_unregister(st, page_class) ==
    LET r == Registry_unregister(st, page_class)
    IN IF r.raised = "ItemLookupError"
       THEN [r EXCEPT !.logged = @ + 1]
       ELSE r

AccountPageRegistry_get_raising(st, attr_name, attr_value) ==
    Registry_get(st, attr_name, attr_value)

\* class AccountPageRegistry(ExceptionFreeGetterMixin, ConfigPageRegistry)
AccountPageRegistry_get(st, attr_name, attr_value) ==
    ExceptionFreeGetterMixin_get(Registry_get(st, attr_name, attr_value))

AccountPageRegistry_iter(st) == Registry_iter(st)

(***************************************************************************)
(* The deprecated free functions: warn, then forward to the registry.      *)
(***************************************************************************)
warn(r) == [r EXCEPT !.warned = @ + 1]

register_account_page_class_warn_after(st, cls) ==
    LET r == AccountPageRegistry_register(st, cls)
    IN IF r.raised # "" THEN r ELSE warn(r)

register_account_page_class(st, cls) ==
    warn(AccountPageRegistry_register(st, cls))

unregister_account_page_class(st, page_cls) ==
    warn(AccountPageRegistry_unregister(st, page_cls))

get_page_class(st, id) == warn(AccountPageRegistry_get(st, "page_id", id))

get_page_classes(st) == warn(AccountPageRegistry_iter(st))

(***************************************************************************)
(* The state machine: one action per call a client can make.  Besides the  *)
(* registry's state, a behaviour records what the last call was and what   *)
(* it produced:                                                            *)
(*   lastCall  the call: its operation, its argument, and whether it was   *)
(*             made on the registry or through a deprecated function       *)
(*   raised, got, yielded, logged, warned   its outcome                    *)
(*   firstUse  whether it was the first call, the one that populated       *)
(*   mutated   whether a register or unregister has succeeded yet          *)
(*   undo      a successful register(P) and the order it found, kept while *)
(*             the next call is unregister(P)                              *)
(*   nreg      the successful registrations so far                         *)
(***************************************************************************)
NoCall == [op |-> "none", arg |-> "", via |-> ""]

NoUndo == [phase |-> "idle", page |-> "", before |-> <<>>]

Init ==
    /\ populated = FALSE
    /\ registry = {}
    /\ key_order = <<>>
    /\ forms = {}
    /\ lastCall = NoCall
    /\ raised = ""
    /\ got = "None"
    /\ yielded = <<>>
    /\ logged = 0
    /\ warned = 0
    /\ firstUse = FALSE
    /\ mutated = FALSE
    /\ undo = NoUndo
    /\ nreg = 0

Apply(op, arg, via, o) ==
    LET succeeded == o.raised = "" /\ op \in {"register", "unregister"}
    IN /\ op = "register" /\ o.raised = "" => nreg < MaxRegisters
       /\ populated' = o.st.populated
       /\ registry' = o.st.registry
       /\ key_order' = o.st.key_order
       /\ forms' = o.st.forms
       /\ lastCall' = [op |-> op, arg |-> arg, via |-> via]
       /\ raised' = o.raised
       /\ got' = o.got
       /\ yielded' = o.yielded
       /\ logged' = o.logged
       /\ warned' = o.warned
       /\ firstUse' = ~populated
       /\ mutated' = (mutated \/ succeeded)
       /\ undo' = IF op = "register" /\ o.raised = ""
                  THEN [phase |-> "registered", page |-> arg,
                        before |-> Registry_populate(St).st.key_order]
                  ELSE IF op = "unregister" /\ undo.phase = "registered"
                          /\ undo.page = arg
                  THEN [undo EXCEPT !.phase = "undone"]
                  ELSE NoUndo
       /\ nreg' = IF op = "register" /\ o.raised = "" THEN nreg + 1 ELSE nreg

\* AccountPage.registry.register(page_class)
RegistryRegister(P) ==
    Apply("register", P, "registry", AccountPageRegistry_register(St, P))

\* AccountPage.registry.unregister(page_class)
RegistryUnregister(P) ==
    Apply("unregister", P, "registry", AccountPageRegistry_unregister(St, P))

\* AccountPage.registry.get('page_id', id)
RegistryGet(id) ==
    Apply("get", id, "registry", AccountPageRegistry_get(St, "page_id", id))

\* iter(AccountPage.registry), run to its end
RegistryIter ==
    Apply("iter", "", "registry", AccountPageRegistry_iter(St))

DeprecatedRegister(P) ==
    Apply("register", P, "deprecated", register_account_page_class(St, P))

DeprecatedUnregister(P) ==
    Apply("unregister", P, "deprecated", unregister_account_page_class(St, P))

DeprecatedGet(id) ==
    Apply("get", id, "deprecated", get_page_class(St, id))

DeprecatedIter ==
    Apply("iter", "", "deprecated", get_page_classes(St))

Next ==
    \/ \E P \in Pages : RegistryRegister(P)
    \/ \E P \in Pages : RegistryUnregister(P)
    \/ \E id \in PageIds : RegistryGet(id)
    \/ RegistryIter
    \/ \E P \in Pages : DeprecatedRegister(P)
    \/ \E P \in Pages : DeprecatedUnregister(P)
    \/ \E id \in PageIds : DeprecatedGet(id)
    \/ DeprecatedIter

Spec == Init /\ [][Next]_vars

TypeOK ==
    /\ populated \in BOOLEAN
    /\ Range(key_order) \subseteq Pages
    /\ forms \subseteq UNION {Range(form_classes(P)) : P \in Pages}
    /\ raised \in {"", "AlreadyRegisteredError", "ItemLookupError"}
    /\ got \in Pages \cup {"None"}
    /\ logged \in 0..1
    /\ warned \in 0..1
    /\ nreg \in 0..MaxRegisters

(***************************************************************************)
(* What the claims speak of.                                               *)
(***************************************************************************)
\* The built-in pages in their declared order, and their forms.
DeclaredDefaults ==
    <<"GroupsPage", "AccountSettingsPage", "AuthenticationPage",
      "ProfilePage", "APITokensPage">>

DeclaredForms ==
    {"GroupsForm", "AccountSettingsForm", "ChangePasswordForm",
     "ProfileForm", "AvatarSettingsForm", "APITokensForm"}

\* The registry a call finds: before the first call, the defaults that the
\* call will lazily populate.
PreOrder == IF populated THEN key_order ELSE DeclaredDefaults

PreForms == IF populated THEN forms ELSE DeclaredForms

IdRegistered(id) == \E Q \in Range(PreOrder) : page_id(Q) = id

Called(op, arg) == lastCall'.op = op /\ lastCall'.arg = arg

\* C1: in every reachable state no two registered pages have the same
\* page_id.
C1_UniquePageIds ==
    \A i, j \in DOMAIN key_order :
        i # j => page_id(key_order[i]) # page_id(key_order[j])

\* An extension page holds the id 'settings' and the built-in page of that
\* id has just been refused.
C1_Witness ==
    /\ lastCall.op = "register"
    /\ lastCall.arg = "AccountSettingsPage"
    /\ raised = "AlreadyRegisteredError"
    /\ "ExtPageB" \in Range(key_order)

\* C2: register(P), called while a page with P's page_id is registered (also
\* as the very first call, against the defaults), raises
\* AlreadyRegisteredError and leaves the pages, their order and the
\* registered forms as they were.
C2_DuplicateIdRejected ==
    [][\A P \in Pages :
          Called("register", P) /\ IdRegistered(page_id(P))
          => /\ raised' = "AlreadyRegisteredError"
             /\ key_order' = PreOrder
             /\ forms' = PreForms]_vars

\* register(ExtPageB), whose id is 'settings', refused as the first call.
C2_Witness ==
    /\ lastCall.op = "register"
    /\ lastCall.arg = "ExtPageB"
    /\ firstUse
    /\ raised = "AlreadyRegisteredError"
    /\ key_order = DeclaredDefaults

\* C4: unregister(P), called while P is not registered, raises
\* ItemLookupError to the caller, logs it exactly once, and leaves the
\* registered pages and their order as they were.
C4_UnregisterMissing ==
    [][\A P \in Pages :
          Called("unregister", P) /\ P \notin Range(PreOrder)
          => /\ raised' = "ItemLookupError"
             /\ logged' = 1
             /\ key_order' = PreOrder]_vars

\* A built-in page that was unregistered before is unregistered again.
C4_Witness ==
    /\ lastCall.op = "unregister"
    /\ lastCall.arg = "GroupsPage"
    /\ "GroupsPage" \notin Range(key_order)
    /\ raised = "ItemLookupError"
    /\ logged = 1
    /\ mutated

\* C5: register(P) of a page whose id and forms collide with nothing
\* succeeds, and an unregister(P) that follows it succeeds too; P is then
\* absent from the order, its id is looked up as None, and every other page
\* is registered as before the register call.
C5_RegisterThenUnregister ==
    [][\A P \in Pages :
          /\ ( /\ Called("register", P)
               /\ ~IdRegistered(page_id(P))
               /\ Range(form_classes(P)) \cap PreForms = {} )
             => /\ raised' = ""
                /\ key_order' = Append(PreOrder, P)
          /\ ( /\ lastCall.op = "register" /\ lastCall.arg = P /\ raised = ""
               /\ Called("unregister", P) )
             => /\ raised' = ""
                /\ P \notin Range(key_order')
                /\ key_order' = undo.before
                /\ AccountPageRegistry_get(
                       [populated |-> populated', registry |-> registry',
                        key_order |-> key_order', forms |-> forms'],
                       "page_id", page_id(P)).got = "None"]_vars

\* ExtPageA was registered and, by the next call, unregistered.
C5_Witness ==
    /\ undo.phase = "undone"
    /\ undo.page = "ExtPageA"
    /\ lastCall.op = "unregister"
    /\ raised = ""
    /\ key_order = undo.before

\* C6: get(identifier) never raises: it returns the registered page of that
\* page_id when there is one and None otherwise, and leaves the registered
\* pages as they were.
C6_GetNeverRaises ==
    [][\A id \in PageIds :
          Called("get", id)
          => /\ raised' = ""
             /\ got' = IF IdRegistered(id)
                       THEN CHOOSE Q \in Range(PreOrder) : page_id(Q) = id
                       ELSE "None"
             /\ key_order' = PreOrder
             /\ forms' = PreForms]_vars

\* The id of a built-in page that has been unregistered is looked up.
C6_Witness ==
    /\ lastCall.op = "get"
    /\ lastCall.arg = "profile"
    /\ "ProfilePage" \notin Range(key_order)
    /\ raised = ""
    /\ got = "None"

\* C7: once used, a registry on which nothing has been registered or
\* unregistered holds exactly the five built-in pages 'groups', 'settings',
\* 'authentication', 'profile' and 'api-tokens', profile with two forms and
\* the others with one, and their six forms.
C7_DefaultsExact ==
    populated /\ ~mutated
    => /\ Len(key_order) = Cardinality(BuiltinPages)
       /\ Range(key_order) = BuiltinPages
       /\ {page_id(P) : P \in Range(key_order)} =
              {"groups", "settings", "authentication", "profile", "api-tokens"}
       /\ \A P \in Range(key_order) :
              Len(form_classes(P)) = IF page_id(P) = "profile" THEN 2 ELSE 1
       /\ forms = DeclaredForms
       /\ \A P \in Range(key_order) : Range(form_classes(P)) \subseteq forms

\* The first call is an iteration, and it yields five pages.
C7_Witness ==
    /\ populated
    /\ ~mutated
    /\ firstUse
    /\ lastCall.op = "iter"
    /\ Len(yielded) = 5

IsExtension(P) == P \in ExtensionPages

IsRegisteredDefault(P) == P \in Range(key_order)

\* C8 as stated: iteration yields the registered defaults in their declared
\* order followed by the extension pages in the order of their registration;
\* an unregister removes only its page and reorders nothing; two iterations
\* with no mutation between them yield the same.
C8_DefaultsThenExtensions ==
    /\ [](lastCall.op = "iter"
          => yielded = SelectSeq(DeclaredDefaults, IsRegisteredDefault)
                       \o SelectSeq(key_order, IsExtension))
    /\ [][ /\ \A P \in Pages :
                Called("unregister", P) /\ raised' = ""
                => key_order' = Remove(PreOrder, P)
           /\ \A P \in ExtensionPages :
                Called("register", P) /\ raised' = ""
                => SelectSeq(key_order', IsExtension) =
                       Append(SelectSeq(PreOrder, IsExtension), P)
           /\ lastCall.op = "iter" /\ lastCall'.op = "iter"
                => yielded' = yielded ]_vars

\* C8 as amended: iteration yields the registered pages in registration
\* order.  Population registers the defaults in their declared order; a
\* successful register, of an extension page or of a default that had been
\* unregistered, puts its page after all pages registered then; a successful
\* unregister removes only its page; nothing else changes the order; two
\* iterations with no mutation between them yield the same.
C8_RegistrationOrder ==
    [][ /\ \A P \in Pages :
             /\ Called("register", P) /\ raised' = ""
                => key_order' = Append(PreOrder, P)
             /\ Called("unregister", P) /\ raised' = ""
                => key_order' = Remove(PreOrder, P)
        /\ raised' # "" \/ lastCall'.op \in {"get", "iter"}
             => key_order' = PreOrder
        /\ lastCall'.op = "iter" => yielded' = key_order'
        /\ lastCall.op = "iter" /\ lastCall'.op = "iter"
             => yielded' = yielded ]_vars

\* An iteration yields a re-registered default after an extension page.
C8_Witness ==
    /\ lastCall.op = "iter"
    /\ \E i, j \in DOMAIN yielded :
          i < j /\ yielded[i] \in ExtensionPages /\ yielded[j] \in BuiltinPages

\* The registry operation a deprecated function stands for.
Direct(op, arg, st) ==
    CASE op = "register" -> AccountPageRegistry_register(st, arg)
      [] op = "unregister" -> AccountPageRegistry_unregister(st, arg)
      [] op = "get" -> AccountPageRegistry_get(st, "page_id", arg)
      [] op = "iter" -> AccountPageRegistry_iter(st)

\* C9: a call of a deprecated function gives the result or error and leaves
\* the registry as the registry operation it wraps would, and besides emits
\* one deprecation warning, also when the operation fails; the registry
\* operations emit none.
C9_DeprecatedForward ==
    [][ /\ lastCall'.via = "deprecated"
           => LET d == Direct(lastCall'.op, lastCall'.arg, St)
              IN /\ populated' = d.st.populated
                 /\ registry' = d.st.registry
                 /\ key_order' = d.st.key_order
                 /\ forms' = d.st.forms
                 /\ raised' = d.raised
                 /\ got' = d.got
                 /\ yielded' = d.yielded
                 /\ logged' = d.logged
                 /\ warned' = 1
        /\ lastCall'.via = "registry" => warned' = 0 ]_vars

\* register_account_page_class has failed and has warned.
C9_Witness ==
    /\ lastCall.via = "deprecated"
    /\ lastCall.op = "register"
    /\ raised = "AlreadyRegisteredError"
    /\ warned = 1

\* C10: population happens once.  A populated registry stays populated, and
\* a default page that is absent becomes registered only by a successful
\* register of that very page, which puts it after the pages registered
\* then; this also when the registry is empty.
C10_PopulatedOnce ==
    [][ /\ populated => populated'
        /\ \A D \in BuiltinPages :
             populated /\ D \notin Range(key_order) /\ D \in Range(key_order')
             => /\ Called("register", D)
                /\ raised' = ""
                /\ key_order' = Append(key_order, D) ]_vars

\* All five defaults are unregistered and an iteration yields nothing.
C10_Witness ==
    /\ populated
    /\ key_order = <<>>
    /\ lastCall.op = "iter"
    /\ yielded = <<>>

====
